---- MODULE Spec2Model ----
(***************************************************************************)
(* Knowledge-graph pipeline of src/main.py and src/app.py.                 *)
(*                                                                         *)
(* Two specifications are given.                                           *)
(*   SpecGraph : visualize_graph (main.py:56-122) applied to every value   *)
(*               of graph_documents of the bounded universe.               *)
(*   Spec      : one Streamlit run of app.py: the text is typed or         *)
(*               uploaded, "Generate Knowledge Graph" is clicked,          *)
(*               handle_graph_generation runs process_text_async, the      *)
(*               awaited extraction call completes, the graph is built     *)
(*               and shown.                                                *)
(*                                                                         *)
(* Strings whose characters matter (the text, relationship types) are      *)
(* sequences of one-character strings.  Python's None is a record with a   *)
(* flag, so that None and the empty value stay different.                  *)
(***************************************************************************)
EXTENDS Naturals, Sequences, FiniteSets

VARIABLES
    pc,               \* position of the run
    input_method,     \* app.py:27 the radio button
    extracted_text,   \* the text as typed (app.py:266) or as extract_text returned it (app.py:236)
    original_length,  \* app.py:240
    text,             \* the variable text handed to handle_graph_generation
    ui,               \* what Streamlit was asked to show, in order
    events,           \* calls made to the collaborators (LLM, transformer, pyvis), in order
    extract_calls,    \* the texts passed to aconvert_to_graph_documents, in order
    graph_documents,  \* value passed to visualize_graph / returned by extract_graph_data
    valid_edges,      \* main.py:82 local of visualize_graph
    valid_node_ids,   \* main.py:83 local of visualize_graph
    net,              \* the value visualize_graph returned
    previous_net,     \* the value the call of visualize_graph before this one returned
    result,           \* what process_text_async returned to handle_graph_generation
    display           \* the tables and metrics handle_graph_generation showed (app.py:186-204)

vars == <<pc, input_method, extracted_text, original_length, text, ui, events,
          extract_calls, graph_documents, valid_edges, valid_node_ids, net,
          previous_net, result, display>>

-----------------------------------------------------------------------------
(* Bounds of the model *)

MaxNodes == 2
MaxRels == 2
MaxExtractedNodes == 1
MaxExtractedRels == 1
MaxTextLen == 2

(* app.py:68, read from the environment; a small value so that texts on    *)
(* both sides of the limit are enumerated.                                 *)
CHAR_LIMIT == 1

SeqsUpTo(S, n) == UNION {[1..k -> S] : k \in 0..n}

-----------------------------------------------------------------------------
(* Text and files *)

Whitespace == {" "}
Chars == {" ", "a"}
InvalidByte == "xff"
Bytes == Chars \cup {InvalidByte}

Texts == SeqsUpTo(Chars, MaxTextLen)

NoText == [is_none |-> TRUE, s |-> <<>>]
SomeText(s) == [is_none |-> FALSE, s |-> s]

\* Python truthiness of an Optional[str]
Truthy(t) == ~t.is_none /\ Len(t.s) > 0

RECURSIVE LStrip(_)
LStrip(s) ==
    IF s = <<>> THEN <<>>
    ELSE IF Head(s) \in Whitespace THEN LStrip(Tail(s)) ELSE s

RECURSIVE RStrip(_)
RStrip(s) ==
    IF s = <<>> THEN <<>>
    ELSE IF s[Len(s)] \in Whitespace THEN RStrip(SubSeq(s, 1, Len(s) - 1)) ELSE s

\* str.strip()
Strip(s) == RStrip(LStrip(s))

\* a truncate_text that truncates nothing
truncate_text_Identity(s, limit) == s

\* app.py:71-75
truncate_text(s, limit) ==
    IF Len(s) > limit THEN SubSeq(s, 1, limit) ELSE s

RECURSIVE DropInvalid(_)
DropInvalid(b) ==
    IF b = <<>> THEN <<>>
    ELSE IF Head(b) = InvalidByte THEN DropInvalid(Tail(b))
         ELSE <<Head(b)>> \o DropInvalid(Tail(b))

\* bytes.decode("utf-8") raises on an invalid byte; errors='ignore' drops it
DecodeStrict(b) ==
    IF \E i \in 1..Len(b) : b[i] = InvalidByte
    THEN [raised |-> TRUE, s |-> <<>>]
    ELSE [raised |-> FALSE, s |-> b]

DecodeIgnore(b) == [raised |-> FALSE, s |-> DropInvalid(b)]

FileTypes == {"text/plain", "application/pdf", "docx", "ppt", "pptx", "other"}
Files == [type : FileTypes, bytes : SeqsUpTo(Bytes, MaxTextLen)]

\* app.py:153-173: the text (or None) and the sidebar messages it shows
extract_text(f) ==
    CASE f.type = "text/plain" ->
            LET d == DecodeStrict(f.bytes) IN
            IF d.raised
            THEN [text |-> NoText, msgs |-> <<"sidebar.error: Error extracting text from file">>]
            ELSE [text |-> SomeText(d.s), msgs |-> <<>>]
      [] f.type = "application/pdf" ->
            [text |-> SomeText(DecodeIgnore(f.bytes).s),
             msgs |-> <<"sidebar.warning: PDF processing requires the FileParser utility">>]
      [] f.type = "docx" ->
            [text |-> NoText,
             msgs |-> <<"sidebar.warning: DOCX processing requires additional libraries">>]
      [] f.type \in {"ppt", "pptx"} ->
            [text |-> NoText,
             msgs |-> <<"sidebar.warning: PPT processing requires additional libraries">>]
      [] OTHER ->
            [text |-> SomeText(DecodeIgnore(f.bytes).s), msgs |-> <<>>]

-----------------------------------------------------------------------------
(* Extraction results: the objects visualize_graph reads (duck-typed) *)

\* ids that are instances of str or int, and one that is not (a float)
StrIds == {"A", "B"}
FloatIds == {"1.5"}
IdUniverse == StrIds \cup FloatIds

\* relationship types: a str, or None
StrType(s) == [is_str |-> TRUE, s |-> s]
NoneType == [is_str |-> FALSE, s |-> <<>>]

Node(id, type) == [id |-> id, type |-> type]
Relationship(source, target, type) ==
    [source |-> [id |-> source], target |-> [id |-> target], type |-> type]

\* the nodes and relationships the extraction results are made of: "A" occurs
\* with both types (a list may then hold one id twice with different types)
NodeUniverse ==
    {Node("A", "Person"), Node("A", "Org"), Node("B", "Person"), Node("1.5", "Person")}
RelUniverse ==
    {Relationship(s, t, StrType(<<"K", "n">>)) : s \in IdUniverse, t \in IdUniverse}
        \cup {Relationship("A", "B", NoneType)}

GraphDocument(nodes, relationships) ==
    [nodes_is_none |-> FALSE, nodes |-> nodes, relationships |-> relationships]

\* a document whose nodes attribute is None: iterating it raises TypeError
MalformedDoc == [nodes_is_none |-> TRUE, nodes |-> <<>>, relationships |-> <<>>]

DocsUpTo(n, r) ==
    {GraphDocument(ns, rs) : ns \in SeqsUpTo(NodeUniverse, n), rs \in SeqsUpTo(RelUniverse, r)}

\* Optional[list[GraphDocument]]; one Document goes in (main.py:49), so at most one comes out
NoDocs == [is_none |-> TRUE, docs |-> <<>>]
DocList(docs) == [is_none |-> FALSE, docs |-> docs]

\* Python truthiness of graph_documents (main.py:66, main.py:137, app.py:184)
DocsTruthy(gd) == ~gd.is_none /\ Len(gd.docs) > 0

\* str.lower() on the characters of the universe
LowerChar(c) ==
    CASE c = "K" -> "k"
      [] c = "N" -> "n"
      [] OTHER -> c

Lower(s) == [i \in 1..Len(s) |-> LowerChar(s[i])]

-----------------------------------------------------------------------------
(* pyvis.network.Network as main.py uses it *)

NoNet == [is_none |-> TRUE, nodes |-> <<>>, edges |-> <<>>, options |-> "none"]

\* main.py:71-73
Network == [is_none |-> FALSE, nodes |-> <<>>, edges |-> <<>>, options |-> "default"]

\* Network.get_nodes()
get_nodes(n) == {n.nodes[i].id : i \in 1..Len(n.nodes)}

\* isinstance(n_id, str) or isinstance(n_id, int)
IsStrOrInt(n_id) == n_id \in StrIds

\* Network.add_node as called at main.py:93: asserts the id is a str or an
\* int, and adds the vertex only when the id is not yet present
add_node(n, n_id, label, title, group) ==
    IF ~IsStrOrInt(n_id) THEN [raised |-> TRUE, net |-> n]
    ELSE IF n_id \in get_nodes(n) THEN [raised |-> FALSE, net |-> n]
    ELSE [raised |-> FALSE,
          net |-> [n EXCEPT !.nodes =
                      Append(@, [id |-> n_id, label |-> label, title |-> title, group |-> group])]]

\* add_edge of an undirected network: an edge already present is not added again
add_edge_Dedup(n, source, to, label) ==
    IF source \notin get_nodes(n) \/ to \notin get_nodes(n)
    THEN [raised |-> TRUE, net |-> n]
    ELSE IF \E i \in 1..Len(n.edges) : n.edges[i].from = source /\ n.edges[i].to = to
         THEN [raised |-> FALSE, net |-> n]
         ELSE [raised |-> FALSE,
               net |-> [n EXCEPT !.edges =
                           Append(@, [from |-> source, to |-> to, label |-> label, arrows |-> "to"])]]

\* Network.add_edge as called at main.py:101 on a directed network: asserts
\* both endpoints are vertices, then appends the edge (no duplicate check
\* when directed=True)
add_edge(n, source, to, label) ==
    IF source \notin get_nodes(n) \/ to \notin get_nodes(n)
    THEN [raised |-> TRUE, net |-> n]
    ELSE [raised |-> FALSE,
          net |-> [n EXCEPT !.edges =
                      Append(@, [from |-> source, to |-> to, label |-> label, arrows |-> "to"])]]

\* main.py:107-120
set_options(n) == [n EXCEPT !.options = "forceAtlas2Based"]

-----------------------------------------------------------------------------
(* visualize_graph, main.py:56-122 *)

NodeIds(nodes) == {nodes[i].id : i \in 1..Len(nodes)}

\* main.py:79: a dict comprehension, the last node of an id wins
node_dict(nodes) ==
    [k \in NodeIds(nodes) |->
        nodes[CHOOSE i \in 1..Len(nodes) :
                 /\ nodes[i].id = k
                 /\ \A j \in 1..Len(nodes) : nodes[j].id = k => j <= i]]

\* main.py:85
BothEndpointsKnown(rel, nd) ==
    rel.source.id \in DOMAIN nd /\ rel.target.id \in DOMAIN nd

\* a filtering loop whose append is outside the if: every relationship is kept
RECURSIVE FilterLoop_AppendAll(_, _, _, _)
FilterLoop_AppendAll(relationships, nd, i, acc) ==
    IF i > Len(relationships) THEN acc
    ELSE LET rel == relationships[i] IN
         FilterLoop_AppendAll(relationships, nd, i + 1,
             [valid_edges |-> Append(acc.valid_edges, rel),
              valid_node_ids |-> IF BothEndpointsKnown(rel, nd)
                                 THEN acc.valid_node_ids \cup {rel.source.id, rel.target.id}
                                 ELSE acc.valid_node_ids])

\* main.py:82-87, the filtering loop from relationship i on
RECURSIVE FilterLoop(_, _, _, _)
FilterLoop(relationships, nd, i, acc) ==
    IF i > Len(relationships) THEN acc
    ELSE LET rel == relationships[i] IN
         IF BothEndpointsKnown(rel, nd)
         THEN FilterLoop(relationships, nd, i + 1,
                         [valid_edges |-> Append(acc.valid_edges, rel),
                          valid_node_ids |-> acc.valid_node_ids
                                               \cup {rel.source.id, rel.target.id}])
         ELSE FilterLoop(relationships, nd, i + 1, acc)

\* a filtering loop that starts from the ids of all nodes
Validate_AllIds(nodes, relationships) ==
    FilterLoop(relationships, node_dict(nodes), 1,
               [valid_edges |-> <<>>, valid_node_ids |-> NodeIds(nodes)])

Validate(nodes, relationships) ==
    FilterLoop(relationships, node_dict(nodes), 1,
               [valid_edges |-> <<>>, valid_node_ids |-> {}])

\* the orders in which a Python set may be iterated
IterationOrders(S) ==
    {o \in [1..Cardinality(S) -> S] : \A i, j \in 1..Cardinality(S) : o[i] = o[j] => i = j}

\* a vertex loop that passes the node type as the label and the id as the tooltip
RECURSIVE AddNodesLoop_LabelIsType(_, _, _, _)
AddNodesLoop_LabelIsType(n, order, nd, i) ==
    IF i > Len(order) THEN n
    ELSE LET node == nd[order[i]]
             r == add_node(n, node.id, node.type, node.id, node.type)
         IN AddNodesLoop_LabelIsType(IF r.raised THEN n ELSE r.net, order, nd, i + 1)

\* main.py:90-96, from position i of the iteration order on
RECURSIVE AddNodesLoop(_, _, _, _)
AddNodesLoop(n, order, nd, i) ==
    IF i > Len(order) THEN n
    ELSE LET node == nd[order[i]]
             r == add_node(n, node.id, node.id, node.type, node.type)
         IN AddNodesLoop(IF r.raised THEN n ELSE r.net, order, nd, i + 1)

\* main.py:101: the label is computed first (None has no lower()), then the edge is added
AddOneEdge(n, rel) ==
    IF ~rel.type.is_str THEN [raised |-> TRUE, net |-> n]
    ELSE add_edge(n, rel.source.id, rel.target.id, Lower(rel.type.s))

\* an edge loop without the try/except: the first failure ends the loop
RECURSIVE AddEdgesLoop_Abort(_, _, _)
AddEdgesLoop_Abort(n, edges, i) ==
    IF i > Len(edges) THEN n
    ELSE LET r == AddOneEdge(n, edges[i])
         IN IF r.raised THEN n ELSE AddEdgesLoop_Abort(r.net, edges, i + 1)

\* main.py:99-104, from edge i on
RECURSIVE AddEdgesLoop(_, _, _)
AddEdgesLoop(n, edges, i) ==
    IF i > Len(edges) THEN n
    ELSE LET r == AddOneEdge(n, edges[i])
         IN AddEdgesLoop(IF r.raised THEN n ELSE r.net, edges, i + 1)

\* a builder that adds a vertex for every extracted node
Build_AllNodes(nd, order, edges) ==
    set_options(AddEdgesLoop(
        AddNodesLoop(Network, CHOOSE o \in IterationOrders(DOMAIN nd) : TRUE, nd, 1),
        edges, 1))

\* main.py:89-122
Build(nd, order, edges) ==
    set_options(AddEdgesLoop(AddNodesLoop(Network, order, nd, 1), edges, 1))

NoLocals == [valid_edges |-> <<>>, valid_node_ids |-> {}]

\* what the set valid_node_ids of this call holds (for the choice of its iteration order)
OrdersFor(gd) ==
    IF DocsTruthy(gd) /\ ~gd.docs[1].nodes_is_none
    THEN IterationOrders(Validate(gd.docs[1].nodes, gd.docs[1].relationships).valid_node_ids)
    ELSE {<<>>}

\* main.py:56-122: the returned value (or the exception), with the locals of the filtering loop
visualize_graph(gd, order) ==
    IF ~DocsTruthy(gd)
    THEN [raised |-> FALSE, net |-> NoNet, locals |-> NoLocals]
    ELSE LET doc == gd.docs[1] IN
         IF doc.nodes_is_none
         THEN [raised |-> TRUE, net |-> NoNet, locals |-> NoLocals]
         ELSE LET v == Validate(doc.nodes, doc.relationships) IN
              [raised |-> FALSE,
               net |-> Build(node_dict(doc.nodes), order, v.valid_edges),
               locals |-> v]

-----------------------------------------------------------------------------
(* SpecGraph: visualize_graph on every input of the universe *)

GraphInputs ==
    {NoDocs, DocList(<<>>), DocList(<<MalformedDoc>>)}
        \cup {DocList(<<d>>) : d \in DocsUpTo(MaxNodes, MaxRels)}

NoResult == [returned |-> FALSE, graph_documents |-> NoDocs, net |-> NoNet]

\* a table that was not shown, and one that was
NoTable == [shown |-> FALSE, rows |-> <<>>]
Table(rows) == [shown |-> TRUE, rows |-> rows]

NoMetrics == [shown |-> FALSE, total_nodes |-> 0, total_relationships |-> 0, text_length |-> 0]

NoDisplay == [nodes_table |-> NoTable, relationships_table |-> NoTable, metrics |-> NoMetrics]

\* app.py:85-96: the node table, one row per extracted node (the Properties column is left out)
NodesTable(nodes, show_nodes) ==
    IF show_nodes /\ Len(nodes) > 0
    THEN Table([i \in 1..Len(nodes) |-> [node_id |-> nodes[i].id, type |-> nodes[i].type]])
    ELSE NoTable

\* app.py:107-119: the relationship table, one row per extracted relationship
RelationshipsTable(relationships, show_relationships) ==
    IF show_relationships /\ Len(relationships) > 0
    THEN Table([i \in 1..Len(relationships) |->
                   [source |-> relationships[i].source.id,
                    relationship |-> relationships[i].type,
                    target |-> relationships[i].target.id]])
    ELSE NoTable

\* metrics that count the vertices and edges of the rendered graph
Metrics_FromGraph(gd, n, t) ==
    [shown |-> TRUE,
     total_nodes |-> Len(n.nodes),
     total_relationships |-> Len(n.edges),
     text_length |-> Len(t)]

\* app.py:194-204
Metrics(gd, n, t) ==
    [shown |-> TRUE,
     total_nodes |-> Len(gd.docs[1].nodes),
     total_relationships |-> Len(gd.docs[1].relationships),
     text_length |-> Len(t)]

\* app.py:77-128 and app.py:194-204: what the success branch shows
Display(gd, n, t, show_nodes, show_relationships) ==
    [nodes_table |-> NodesTable(gd.docs[1].nodes, show_nodes),
     relationships_table |-> RelationshipsTable(gd.docs[1].relationships, show_relationships),
     metrics |-> Metrics(gd, n, t)]

InitGraph ==
    /\ pc = "vg_call"
    /\ graph_documents \in GraphInputs
    /\ input_method = "none"
    /\ extracted_text = NoText
    /\ original_length = 0
    /\ text = NoText
    /\ ui = <<>>
    /\ events = <<>>
    /\ extract_calls = <<>>
    /\ valid_edges = <<>>
    /\ valid_node_ids = {}
    /\ net = NoNet
    /\ previous_net = NoNet
    /\ result = NoResult
    /\ display = NoDisplay

CallVisualizeGraph ==
    /\ pc = "vg_call"
    /\ \E order \in OrdersFor(graph_documents) :
          LET r == visualize_graph(graph_documents, order) IN
          /\ pc' = IF r.raised THEN "vg_raised" ELSE "vg_returned"
          /\ net' = r.net
          /\ valid_edges' = r.locals.valid_edges
          /\ valid_node_ids' = r.locals.valid_node_ids
    /\ events' = Append(events, "visualize_graph")
    /\ UNCHANGED <<input_method, extracted_text, original_length, text, ui,
                   extract_calls, graph_documents, result>>
    /\ UNCHANGED <<previous_net, display>>

\* a visualize_graph that keeps one Network for all calls instead of making one per call
visualize_graph_again_SharedNetwork(previous, gd, order) ==
    IF ~DocsTruthy(gd)
    THEN [raised |-> FALSE, net |-> NoNet, locals |-> NoLocals]
    ELSE LET doc == gd.docs[1] IN
         IF doc.nodes_is_none
         THEN [raised |-> TRUE, net |-> NoNet, locals |-> NoLocals]
         ELSE LET v == Validate(doc.nodes, doc.relationships)
                  shared == IF previous.is_none THEN Network ELSE previous
              IN [raised |-> FALSE,
                  net |-> set_options(AddEdgesLoop(
                              AddNodesLoop(shared, order, node_dict(doc.nodes), 1),
                              v.valid_edges, 1)),
                  locals |-> v]

\* main.py:56-122 called when an earlier call has returned previous: the Network
\* is made anew (main.py:71-73) and nothing the earlier call left is read
visualize_graph_again(previous, gd, order) == visualize_graph(gd, order)

\* visualize_graph is called a second time on the same graph_documents
CallVisualizeGraphAgain ==
    /\ pc = "vg_returned"
    /\ \E order \in OrdersFor(graph_documents) :
          LET r == visualize_graph_again(net, graph_documents, order) IN
          /\ pc' = IF r.raised THEN "vg_raised_again" ELSE "vg_returned_again"
          /\ net' = r.net
          /\ valid_edges' = r.locals.valid_edges
          /\ valid_node_ids' = r.locals.valid_node_ids
    /\ previous_net' = net
    /\ display' = display
    /\ events' = Append(events, "visualize_graph")
    /\ UNCHANGED <<input_method, extracted_text, original_length, text, ui,
                   extract_calls, graph_documents, result>>

NextGraph ==
    \/ CallVisualizeGraph
    \/ CallVisualizeGraphAgain

SpecGraph == InitGraph /\ [][NextGraph]_vars

-----------------------------------------------------------------------------
(* Spec: one run of the Streamlit script app.py *)

Init ==
    /\ pc = "idle"
    /\ input_method = "none"
    /\ extracted_text = NoText
    /\ original_length = 0
    /\ text = NoText
    /\ ui = <<>>
    /\ events = <<>>
    /\ extract_calls = <<>>
    /\ graph_documents = NoDocs
    /\ valid_edges = <<>>
    /\ valid_node_ids = {}
    /\ net = NoNet
    /\ previous_net = NoNet
    /\ result = NoResult
    /\ display = NoDisplay

\* app.py:264-274: the text area and the character count
InputText ==
    /\ pc = "idle"
    /\ \E t \in Texts :
          /\ extracted_text' = SomeText(t)
          /\ text' = SomeText(t)
          /\ ui' = ui
                   \o (IF Len(t) > 0 THEN <<"sidebar.info: Characters">> ELSE <<>>)
                   \o (IF Len(t) > 0 /\ Len(t) > CHAR_LIMIT
                       THEN <<"sidebar.error: Text exceeds the character limit. Please reduce the text length.">>
                       ELSE <<>>)
    /\ input_method' = "Input text"
    /\ pc' = "loaded"
    /\ UNCHANGED <<original_length, events, extract_calls, graph_documents,
                   valid_edges, valid_node_ids, net, result>>
    /\ UNCHANGED <<previous_net, display>>

\* app.py:234-257: the uploaded file is read, its text truncated to CHAR_LIMIT
UploadFile ==
    /\ pc = "idle"
    /\ \E f \in Files :
          LET r == extract_text(f) IN
          /\ extracted_text' = r.text
          /\ IF Truthy(r.text)
             THEN /\ original_length' = Len(r.text.s)
                  /\ text' = SomeText(truncate_text(r.text.s, CHAR_LIMIT))
                  /\ ui' = ui \o r.msgs
                           \o (IF Len(r.text.s) > CHAR_LIMIT
                               THEN <<"sidebar.warning: Text truncated">>
                               ELSE <<>>)
                           \o <<"sidebar.success: File loaded successfully!">>
             ELSE /\ original_length' = original_length
                  /\ text' = NoText
                  /\ ui' = ui \o r.msgs
                           \o <<"sidebar.error: Could not extract text from the uploaded file.">>
    /\ input_method' = "Upload file"
    /\ pc' = "loaded"
    /\ UNCHANGED <<events, extract_calls, graph_documents,
                   valid_edges, valid_node_ids, net, result>>
    /\ UNCHANGED <<previous_net, display>>

\* app.py:260 and app.py:277: the button calls handle_graph_generation only on a truthy text
Clicked == pc = "loaded" /\ Truthy(text)

\* the guard without the length test
Accepts_NoLimit(t) == Len(Strip(t)) > 0

\* app.py:178
Accepts(t) == Len(Strip(t)) > 0 /\ Len(t) <= CHAR_LIMIT

\* app.py:220-224
RejectInput ==
    /\ Clicked
    /\ ~Accepts(text.s)
    /\ ui' = ui
             \o (IF Len(Strip(text.s)) = 0
                 THEN <<"sidebar.error: Please enter some text.">>
                 ELSE IF Len(text.s) > CHAR_LIMIT
                      THEN <<"sidebar.error: Text exceeds the character limit.">>
                      ELSE <<>>)
    /\ pc' = "REJECTED"
    /\ UNCHANGED <<input_method, extracted_text, original_length, text, events,
                   extract_calls, graph_documents, valid_edges, valid_node_ids, net, result>>
    /\ UNCHANGED <<previous_net, display>>

\* app.py:214-215: what handle_graph_generation shows for a falsy result
FailureShown == Append(ui, "error: Failed to generate graph documents.")

\* app.py:134 raises; app.py:149-151 returns (None, None)
GetLlmFails ==
    /\ Clicked
    /\ Accepts(text.s)
    /\ events' = Append(events, "get_llm: raised")
    /\ result' = [returned |-> TRUE, graph_documents |-> NoDocs, net |-> NoNet]
    /\ ui' = FailureShown
    /\ pc' = "FAILED"
    /\ UNCHANGED <<input_method, extracted_text, original_length, text,
                   extract_calls, graph_documents, valid_edges, valid_node_ids, net>>
    /\ UNCHANGED <<previous_net, display>>

\* main.py:33-35 returns None; app.py:142-143 returns (None, None)
TransformerInitFails ==
    /\ Clicked
    /\ Accepts(text.s)
    /\ events' = events \o <<"get_llm", "initialize_graph_transformer: None">>
    /\ result' = [returned |-> TRUE, graph_documents |-> NoDocs, net |-> NoNet]
    /\ ui' = FailureShown
    /\ pc' = "FAILED"
    /\ UNCHANGED <<input_method, extracted_text, original_length, text,
                   extract_calls, graph_documents, valid_edges, valid_node_ids, net>>
    /\ UNCHANGED <<previous_net, display>>

\* app.py:134-146, main.py:136, main.py:49-50: up to the awaited extraction call
StartExtraction ==
    /\ Clicked
    /\ Accepts(text.s)
    /\ events' = events \o <<"get_llm", "initialize_graph_transformer",
                             "aconvert_to_graph_documents">>
    /\ extract_calls' = Append(extract_calls, text.s)
    /\ pc' = "EXTRACTING"
    /\ UNCHANGED <<input_method, extracted_text, original_length, text, ui,
                   graph_documents, valid_edges, valid_node_ids, net, result>>
    /\ UNCHANGED <<previous_net, display>>

\* what aconvert_to_graph_documents may hand back
ExtractionResults ==
    {NoDocs, DocList(<<>>), DocList(<<MalformedDoc>>)}
        \cup {DocList(<<d>>) : d \in DocsUpTo(MaxExtractedNodes, MaxExtractedRels)}

\* generate_knowledge_graph_async keeping the documents when the build raised
GenerateAfterAwait_Partial(gd, order) ==
    IF DocsTruthy(gd)
    THEN LET r == visualize_graph(gd, order) IN
         [called |-> TRUE, vg |-> r, net |-> r.net, graph_documents |-> gd]
    ELSE [called |-> FALSE,
          vg |-> [raised |-> FALSE, net |-> NoNet, locals |-> NoLocals],
          net |-> NoNet, graph_documents |-> NoDocs]

\* generate_knowledge_graph_async without the test of main.py:137
GenerateAfterAwait_NoCheck(gd, order) ==
    LET r == visualize_graph(gd, order) IN
    IF r.raised \/ r.net.is_none
    THEN [called |-> TRUE, vg |-> r, net |-> NoNet, graph_documents |-> NoDocs]
    ELSE [called |-> TRUE, vg |-> r, net |-> r.net, graph_documents |-> gd]

\* main.py:137-143: generate_knowledge_graph_async after the await, as (net, graph_documents)
GenerateAfterAwait(gd, order) ==
    IF DocsTruthy(gd)
    THEN LET r == visualize_graph(gd, order) IN
         IF r.raised
         THEN [called |-> TRUE, vg |-> r, net |-> NoNet, graph_documents |-> NoDocs]
         ELSE [called |-> TRUE, vg |-> r, net |-> r.net, graph_documents |-> gd]
    ELSE [called |-> FALSE,
          vg |-> [raised |-> FALSE, net |-> NoNet, locals |-> NoLocals],
          net |-> NoNet, graph_documents |-> NoDocs]

\* a test that takes a graph without vertices for no graph
ShowsGraph_NonEmpty(r) ==
    DocsTruthy(r.graph_documents) /\ ~r.net.is_none /\ Len(r.net.nodes) > 0

\* app.py:184: graph_documents and net (a Network object is truthy)
ShowsGraph(r) == DocsTruthy(r.graph_documents) /\ ~r.net.is_none

\* the awaited call has completed with gd (None when it raised, main.py:52-54); the
\* rest of generate_knowledge_graph_async, process_text_async (app.py:146-147) and
\* handle_graph_generation (app.py:184-215) run to the end, with the checkboxes
\* of app.py:35-36 as the user left them
Complete(gd) ==
    \E order \in OrdersFor(gd) :
        LET g == GenerateAfterAwait(gd, order)
            r == [returned |-> TRUE, graph_documents |-> g.graph_documents, net |-> g.net]
        IN
        /\ graph_documents' = gd
        /\ net' = g.vg.net
        /\ valid_edges' = g.vg.locals.valid_edges
        /\ valid_node_ids' = g.vg.locals.valid_node_ids
        /\ result' = r
        /\ events' = events
                     \o (IF g.called THEN <<"visualize_graph">> ELSE <<>>)
                     \o (IF ShowsGraph(r) THEN <<"save_graph">> ELSE <<>>)
        /\ ui' = IF ShowsGraph(r)
                 THEN Append(ui, "success: Knowledge graph generated successfully!")
                 ELSE FailureShown
        /\ \E show_nodes \in BOOLEAN, show_relationships \in BOOLEAN :
              display' = IF ShowsGraph(r)
                         THEN Display(r.graph_documents, r.net, text.s,
                                      show_nodes, show_relationships)
                         ELSE NoDisplay
        /\ pc' = IF ShowsGraph(r) THEN "DONE" ELSE "FAILED"

\* main.py:50 raises
ExtractionRaises ==
    /\ pc = "EXTRACTING"
    /\ Complete(NoDocs)
    /\ UNCHANGED <<input_method, extracted_text, original_length, text, extract_calls>>
    /\ UNCHANGED previous_net

\* main.py:50-51 returns
ExtractionReturns ==
    /\ pc = "EXTRACTING"
    /\ \E gd \in ExtractionResults : Complete(gd)
    /\ UNCHANGED <<input_method, extracted_text, original_length, text, extract_calls>>
    /\ UNCHANGED previous_net

\* Streamlit runs the script anew on the next interaction: nothing is kept
Rerun ==
    /\ pc \in {"DONE", "FAILED", "REJECTED"}
    /\ pc' = "idle"
    /\ input_method' = "none"
    /\ extracted_text' = NoText
    /\ original_length' = 0
    /\ text' = NoText
    /\ ui' = <<>>
    /\ events' = <<>>
    /\ extract_calls' = <<>>
    /\ graph_documents' = NoDocs
    /\ valid_edges' = <<>>
    /\ valid_node_ids' = {}
    /\ net' = NoNet
    /\ previous_net' = NoNet
    /\ result' = NoResult
    /\ display' = NoDisplay

Next ==
    \/ InputText
    \/ UploadFile
    \/ RejectInput
    \/ GetLlmFails
    \/ TransformerInitFails
    \/ StartExtraction
    \/ ExtractionRaises
    \/ ExtractionReturns
    \/ Rerun

Spec == Init /\ [][Next]_vars

-----------------------------------------------------------------------------
(* Properties of visualize_graph, checked under SpecGraph *)

\* visualize_graph was given a non-empty list and returned
GraphReturned == pc = "vg_returned" /\ DocsTruthy(graph_documents)

TheDoc == graph_documents.docs[1]
N == NodeIds(TheDoc.nodes)
R == TheDoc.relationships

\* relationship r has both endpoints among the ids of N
Intact(r) == r.source.id \in N /\ r.target.id \in N

\* the ids of N are of the type the data model gives a node id (str or int)
TypedNodes == \A i \in 1..Len(TheDoc.nodes) : IsStrOrInt(TheDoc.nodes[i].id)

\* the relationship types are strings
TypedRels == \A i \in 1..Len(R) : R[i].type.is_str

\* C1: every relationship placed in valid_edges has both its source.id and
\* its target.id among the ids of the node list; no relationship with a
\* dangling endpoint is retained.
ThmC1 ==
    GraphReturned =>
        \A i \in 1..Len(valid_edges) :
            /\ valid_edges[i].source.id \in N
            /\ valid_edges[i].target.id \in N

\* a call that retained one relationship and dropped a dangling one
WitC1 ==
    /\ GraphReturned
    /\ Len(valid_edges) >= 1
    /\ \E i \in 1..Len(R) : ~Intact(R[i])

\* C2: after the filtering loop valid_node_ids is a subset of the ids of the
\* node list and is exactly the union of the endpoints of valid_edges.
ThmC2 ==
    GraphReturned =>
        /\ valid_node_ids \subseteq N
        /\ valid_node_ids =
              UNION {{valid_edges[i].source.id, valid_edges[i].target.id} :
                        i \in 1..Len(valid_edges)}

\* a call with a retained edge and a node that no retained edge references
WitC2 ==
    /\ GraphReturned
    /\ valid_node_ids # {}
    /\ N \ valid_node_ids # {}

\* C3: for an extraction result (node ids of the data model's type), an id is
\* a vertex of the returned graph if and only if it is the source or the
\* target of a relationship whose two endpoints are both ids of the node
\* list; isolated nodes and nodes referenced only by dangling relationships
\* are not vertices.
ThmC3 ==
    (GraphReturned /\ TypedNodes) =>
        get_nodes(net) =
            {id \in IdUniverse :
                \E i \in 1..Len(R) :
                    Intact(R[i]) /\ id \in {R[i].source.id, R[i].target.id}}

\* a graph with a vertex, while the node list also holds a node that only a
\* dangling relationship references
WitC3 ==
    /\ GraphReturned
    /\ TypedNodes
    /\ get_nodes(net) # {}
    /\ \E id \in N \ get_nodes(net) :
          \E i \in 1..Len(R) : ~Intact(R[i]) /\ id \in {R[i].source.id, R[i].target.id}

\* the directed edge a relationship is rendered as
EdgeOf(r) ==
    [from |-> r.source.id, to |-> r.target.id, label |-> Lower(r.type.s), arrows |-> "to"]

\* C4: the edge list of the returned graph is, in input order, the input
\* relationships with both endpoints in the node list, each as one directed
\* edge from source.id to target.id labelled with the lower-cased type; a
\* relationship occurring k times gives k parallel edges.
ThmC4 ==
    (GraphReturned /\ TypedNodes /\ TypedRels) =>
        LET kept == SelectSeq(R, Intact) IN
        net.edges = [i \in 1..Len(kept) |-> EdgeOf(kept[i])]

\* a relationship given twice and rendered as two parallel edges with the lower-cased label
WitC4 ==
    /\ GraphReturned
    /\ TypedNodes
    /\ TypedRels
    /\ Len(R) = 2
    /\ R[1] = R[2]
    /\ Len(net.edges) = 2
    /\ net.edges[1] = net.edges[2]
    /\ net.edges[1].label = <<"k", "n">>
    /\ R[1].type.s = <<"K", "n">>

\* inserting the vertex of this id raises (main.py:93)
VertexFails(id) == ~IsStrOrInt(id)

\* inserting the edge of this relationship raises (main.py:101)
EdgeFails(r) ==
    \/ ~r.type.is_str
    \/ VertexFails(r.source.id)
    \/ VertexFails(r.target.id)

\* C10: a failing vertex or edge insertion skips that element only: every
\* other valid vertex and every other retained edge is inserted, in order,
\* an artifact is returned, and every edge of the artifact has both
\* endpoints among its vertices.
ThmC10 ==
    GraphReturned =>
        LET inserted(r) == ~EdgeFails(r)
            kept == SelectSeq(valid_edges, inserted)
        IN
        /\ ~net.is_none
        /\ get_nodes(net) = {id \in valid_node_ids : ~VertexFails(id)}
        /\ net.edges = [i \in 1..Len(kept) |-> EdgeOf(kept[i])]
        /\ \A i \in 1..Len(net.edges) :
              net.edges[i].from \in get_nodes(net) /\ net.edges[i].to \in get_nodes(net)

\* a vertex insertion failed and the edge to it was skipped first, and the
\* vertex and the edge that came after them are in the artifact
WitC10 ==
    /\ GraphReturned
    /\ \E id \in valid_node_ids : VertexFails(id)
    /\ Len(valid_edges) = 2
    /\ EdgeFails(valid_edges[1])
    /\ ~EdgeFails(valid_edges[2])
    /\ Len(net.edges) = 1
    /\ Len(net.nodes) >= 1

\* the vertices of the returned graph whose id is this one
VerticesOf(id) == {i \in 1..Len(net.nodes) : net.nodes[i].id = id}

\* the endpoints of the retained edges that are this id (a self-loop counts twice)
References(id) ==
    Cardinality({i \in 1..Len(valid_edges) : valid_edges[i].source.id = id})
        + Cardinality({i \in 1..Len(valid_edges) : valid_edges[i].target.id = id})

\* the type of the node of this id; of the last one when the list holds the id twice
TypeOf(id) ==
    LET nodes == TheDoc.nodes
        last == CHOOSE i \in 1..Len(nodes) :
                    /\ nodes[i].id = id
                    /\ \A j \in (i + 1)..Len(nodes) : nodes[j].id # id
    IN nodes[last].type

\* C11: each node id that retained edges reference is exactly one vertex of
\* the returned graph, however many edges reference it as source, as target
\* or as both; no id is a vertex twice; the vertex has the id as its label
\* and the node type as its group and its tooltip.
ThmC11 ==
    GraphReturned =>
        /\ \A id \in valid_node_ids : IsStrOrInt(id) => Cardinality(VerticesOf(id)) = 1
        /\ \A id \in IdUniverse : Cardinality(VerticesOf(id)) <= 1
        /\ \A i \in 1..Len(net.nodes) :
              /\ net.nodes[i].label = net.nodes[i].id
              /\ net.nodes[i].group = TypeOf(net.nodes[i].id)
              /\ net.nodes[i].title = TypeOf(net.nodes[i].id)

\* an id that a self-loop and another retained edge reference, three times in all, is one vertex
WitC11 ==
    /\ GraphReturned
    /\ \E id \in valid_node_ids :
          /\ References(id) >= 3
          /\ \E i \in 1..Len(valid_edges) :
                valid_edges[i].source.id = id /\ valid_edges[i].target.id = id
          /\ Cardinality(VerticesOf(id)) = 1
    /\ Len(net.nodes) = 2

\* the vertices of a network, as a set
VertexSet(n) == {n.nodes[i] : i \in 1..Len(n.nodes)}

\* visualize_graph has returned twice for the same graph_documents
ReturnedTwice == pc = "vg_returned_again"

-----------------------------------------------------------------------------
(* Properties of the pipeline, checked under Spec *)

Count(seq, x) == Cardinality({i \in 1..Len(seq) : seq[i] = x})
Occurs(seq, x) == \E i \in 1..Len(seq) : seq[i] = x
Position(seq, x) == CHOOSE i \in 1..Len(seq) : seq[i] = x

\* C5: the pipeline ends in exactly one of two outcomes: the extraction
\* result and the graph are both returned (DONE), or both are None (FAILED);
\* a partial result is never returned, whatever the failure point.
ThmC5 ==
    /\ pc \in {"DONE", "FAILED"} => result.returned
    /\ result.returned =>
          \/ /\ pc = "DONE"
             /\ DocsTruthy(result.graph_documents)
             /\ ~result.net.is_none
          \/ /\ pc = "FAILED"
             /\ result.graph_documents.is_none
             /\ result.net.is_none

\* the extraction returned a document and building it raised: both values are None
WitC5 ==
    /\ pc = "FAILED"
    /\ graph_documents = DocList(<<MalformedDoc>>)
    /\ Occurs(events, "visualize_graph")
    /\ result.returned
    /\ result.graph_documents.is_none
    /\ result.net.is_none

\* the text handle_graph_generation was called with is too long or blank
Unsupported == Len(text.s) > CHAR_LIMIT \/ Len(Strip(text.s)) = 0

\* C6: handle_graph_generation on a text longer than CHAR_LIMIT, or empty
\* after stripping, never starts the pipeline: no LLM is created, no
\* extraction call is made, no graph is built or saved; one error is shown
\* and nothing else changes.
ThmC6 ==
    [][(Clicked /\ Unsupported) =>
          /\ pc' = "REJECTED"
          /\ \E msg \in {"sidebar.error: Please enter some text.",
                         "sidebar.error: Text exceeds the character limit."} :
                ui' = Append(ui, msg)
          /\ UNCHANGED <<events, extract_calls, graph_documents, valid_edges,
                         valid_node_ids, net, result, text>>]_vars

\* a text longer than CHAR_LIMIT was rejected
WitC6 ==
    /\ pc = "REJECTED"
    /\ Len(text.s) > CHAR_LIMIT
    /\ events = <<>>
    /\ ui[Len(ui)] = "sidebar.error: Text exceeds the character limit."

\* C7 as stated: a text above CHAR_LIMIT, typed or extracted from an uploaded
\* file, is rejected: no extraction call is made on it or on a prefix of it.
OrigC7 ==
    (Truthy(extracted_text) /\ Len(extracted_text.s) > CHAR_LIMIT) => extract_calls = <<>>

\* C7 amended: no extraction call is made on a text longer than CHAR_LIMIT;
\* a typed text above CHAR_LIMIT is rejected; the text of an uploaded file
\* above CHAR_LIMIT is cut to its first CHAR_LIMIT characters, with a
\* "Text truncated" warning, and an extraction call, if one is made, is made
\* on that prefix.
ThmC7 ==
    /\ \A i \in 1..Len(extract_calls) : Len(extract_calls[i]) <= CHAR_LIMIT
    /\ (input_method = "Input text" /\ Len(extracted_text.s) > CHAR_LIMIT)
          => extract_calls = <<>>
    /\ (input_method = "Upload file" /\ Truthy(extracted_text)
            /\ Len(extracted_text.s) > CHAR_LIMIT)
          => /\ original_length = Len(extracted_text.s)
             /\ text = SomeText(SubSeq(extracted_text.s, 1, CHAR_LIMIT))
             /\ Occurs(ui, "sidebar.warning: Text truncated")
             /\ \A i \in 1..Len(extract_calls) :
                   extract_calls[i] = SubSeq(extracted_text.s, 1, CHAR_LIMIT)

\* an uploaded text above CHAR_LIMIT whose prefix went to the extraction call
WitC7 ==
    /\ input_method = "Upload file"
    /\ Len(extracted_text.s) > CHAR_LIMIT
    /\ extract_calls = <<SubSeq(extracted_text.s, 1, CHAR_LIMIT)>>

\* C8: a run issues at most one extraction call: one when the transformer
\* was initialised, none when the LLM or the transformer could not be
\* created; visualize_graph is called only after the call has returned a
\* non-empty result, and never after a failed or empty extraction.
ThmC8 ==
    /\ Len(extract_calls) <= 1
    /\ Count(events, "aconvert_to_graph_documents") = Len(extract_calls)
    /\ Occurs(events, "initialize_graph_transformer") <=> Len(extract_calls) = 1
    /\ (Occurs(events, "get_llm: raised") \/ Occurs(events, "initialize_graph_transformer: None"))
          => extract_calls = <<>>
    /\ Occurs(events, "visualize_graph") =>
          /\ Count(events, "visualize_graph") = 1
          /\ Occurs(events, "aconvert_to_graph_documents")
          /\ Position(events, "aconvert_to_graph_documents") < Position(events, "visualize_graph")
          /\ DocsTruthy(graph_documents)
    /\ (pc \in {"DONE", "FAILED"} /\ ~DocsTruthy(graph_documents)) =>
          /\ ~Occurs(events, "visualize_graph")
          /\ net.is_none
          /\ valid_edges = <<>>
          /\ pc = "FAILED"

\* the one extraction call returned an empty list and the run failed without a graph
WitC8 ==
    /\ pc = "FAILED"
    /\ Len(extract_calls) = 1
    /\ graph_documents = DocList(<<>>)
    /\ ~Occurs(events, "visualize_graph")

\* C9: an extraction result in which no relationship has both endpoints in
\* the node list (no nodes, no relationships, or dangling relationships only)
\* aborts nothing: visualize_graph returns an artifact with no vertex and no
\* edge, and the run ends in the success outcome.
ThmC9 ==
    (/\ pc \in {"DONE", "FAILED"}
     /\ DocsTruthy(graph_documents)
     /\ ~TheDoc.nodes_is_none
     /\ \A i \in 1..Len(R) : ~Intact(R[i]))
        => /\ pc = "DONE"
           /\ ~net.is_none
           /\ net.nodes = <<>>
           /\ net.edges = <<>>
           /\ result.net = net
           /\ result.graph_documents = graph_documents
           /\ ui[Len(ui)] = "success: Knowledge graph generated successfully!"
           /\ events[Len(events)] = "save_graph"

\* an extraction result with a node and only a dangling relationship, shown as an empty graph
WitC9 ==
    /\ pc = "DONE"
    /\ Len(TheDoc.nodes) >= 1
    /\ Len(R) >= 1
    /\ \A i \in 1..Len(R) : ~Intact(R[i])
    /\ net.nodes = <<>>
    /\ net.edges = <<>>

\* the ids a table of nodes lists
ListedIds(table) == {table.rows[i].node_id : i \in 1..Len(table.rows)}

\* a node that no relationship with both endpoints in the node list references
Isolated(id) ==
    ~\E i \in 1..Len(R) : Intact(R[i]) /\ id \in {R[i].source.id, R[i].target.id}

\* C13: the tables and the 'Total Nodes' / 'Total Relationships' metrics are
\* computed from the unfiltered extraction result: they list and count every
\* extracted node and relationship, isolated and dangling ones included; the
\* vertices of the rendered graph are among the nodes listed, its edges are
\* no more than the relationships counted, and a count equals the graph's
\* only when no node is isolated, respectively no relationship is dangling.
ThmC13 ==
    pc = "DONE" =>
        LET nodes == TheDoc.nodes
            m == display.metrics
            nt == display.nodes_table
            rt == display.relationships_table
        IN
        /\ m.shown
        /\ m.total_nodes = Len(nodes)
        /\ m.total_relationships = Len(R)
        /\ nt.shown =>
              /\ Len(nt.rows) = Len(nodes)
              /\ \A i \in 1..Len(nodes) :
                    nt.rows[i].node_id = nodes[i].id /\ nt.rows[i].type = nodes[i].type
              /\ get_nodes(net) \subseteq ListedIds(nt)
        /\ rt.shown =>
              /\ Len(rt.rows) = Len(R)
              /\ \A i \in 1..Len(R) :
                    /\ rt.rows[i].source = R[i].source.id
                    /\ rt.rows[i].target = R[i].target.id
                    /\ rt.rows[i].relationship = R[i].type
        /\ get_nodes(net) \subseteq N
        /\ Len(net.nodes) <= m.total_nodes
        /\ Len(net.edges) <= m.total_relationships
        /\ Len(net.nodes) = m.total_nodes => \A id \in N : ~Isolated(id)
        /\ Len(net.edges) = m.total_relationships => \A i \in 1..Len(R) : Intact(R[i])

\* both tables are shown and list a node and a dangling relationship that the graph does not have
WitC13 ==
    /\ pc = "DONE"
    /\ display.nodes_table.shown
    /\ display.relationships_table.shown
    /\ display.metrics.total_nodes >= 1
    /\ display.metrics.total_relationships >= 1
    /\ \E id \in N : Isolated(id)
    /\ \E i \in 1..Len(R) : ~Intact(R[i])
    /\ Len(net.nodes) < display.metrics.total_nodes
    /\ Len(net.edges) < display.metrics.total_relationships

====
